---- MODULE Spec2Model ----
(***************************************************************************)
(* Model of src/main.py: the upload_csv request handler, generate_ssml,    *)
(* the locale resolution, the transcription-column finder and the language *)
(* gate, over an S3 object store and the Azure speech service.             *)
(*                                                                         *)
(* Python strings on which the code does character work (split, strip,     *)
(* replace, re.sub, "in", endswith, int) are sequences of one-character    *)
(* strings.  A DataFrame cell is StrCell(s) or NaN (pandas reads an empty  *)
(* field as the float nan).                                                *)
(***************************************************************************)
EXTENDS Integers, Sequences, FiniteSets, TLC

VARIABLES
    gen,        \* one call of generate_ssml: arguments, loop state, result
    input,      \* request id -> what the client and the services supply
    pc,         \* request id -> position in upload_csv
    loc,        \* request id -> local variables of upload_csv
    response,   \* request id -> the payload returned
    s3,         \* the bucket: key -> body
    uuids,      \* names uuid4 has produced
    puts,       \* history: every put_object, in order
    gets,       \* history: every get_object, in order
    trace       \* history: request id -> the steps executed, in order

vars == <<gen, input, pc, loc, response, s3, uuids, puts, gets, trace>>

(***************************************************************************)
(* Bounds                                                                  *)
(***************************************************************************)
MaxRows == 2
MaxTimedRows == 4
NumRequests == 2

(***************************************************************************)
(* Strings                                                                 *)
(***************************************************************************)
SPEAKER == <<"S","p","e","a","k","e","r">>
TIME_MARKERS == <<"T","i","m","e"," ","M","a","r","k","e","r","s">>
TRANSCRIPTION == <<"-","-","T","r","a","n","s","c","r","i","p","t","i","o","n">>
EN_COLUMN == <<"E","N">> \o TRANSCRIPTION
IN_COLUMN == <<"I","N">> \o TRANSCRIPTION
US_COLUMN == <<"U","S">> \o TRANSCRIPTION
SPK0 == <<"s","p","k","_","0">>
SPK1 == <<"s","p","k","_","1">>
GUY == <<"e","n","-","U","S","-","G","u","y","N","e","u","r","a","l">>
JENNY == <<"e","n","-","U","S","-","J","e","n","n","y","N","e","u","r","a","l">>
EN_US == <<"e","n","-","U","S">>
HI_IN == <<"h","i","-","I","N">>
FR_FR == <<"f","r","-","F","R">>
MALE == <<"M","a","l","e">>
FEMALE == <<"F","e","m","a","l","e">>

Digits == {"0","1","2","3","4","5","6","7","8","9"}

DigitVal(c) ==
    CASE c = "0" -> 0 [] c = "1" -> 1 [] c = "2" -> 2 [] c = "3" -> 3
      [] c = "4" -> 4 [] c = "5" -> 5 [] c = "6" -> 6 [] c = "7" -> 7
      [] c = "8" -> 8 [] c = "9" -> 9

Max(a, b) == IF a >= b THEN a ELSE b

\* Python: sub in s
Contains(sub, s) ==
    \E i \in 0..(Len(s) - Len(sub)) : SubSeq(s, i + 1, i + Len(sub)) = sub

\* Python: s.endswith(suf)
EndsWith(s, suf) ==
    /\ Len(suf) <= Len(s)
    /\ SubSeq(s, Len(s) - Len(suf) + 1, Len(s)) = suf

\* Python: s.split(sep), for a one-character sep
RECURSIVE SplitFrom(_, _, _, _)
SplitFrom(s, sep, i, cur) ==
    IF i > Len(s) THEN <<cur>>
    ELSE IF s[i] = sep THEN <<cur>> \o SplitFrom(s, sep, i + 1, <<>>)
    ELSE SplitFrom(s, sep, i + 1, Append(cur, s[i]))

Split(s, sep) == SplitFrom(s, sep, 1, <<>>)

\* Python: s.replace(c, "")
RECURSIVE Remove(_, _)
Remove(s, c) ==
    IF s = <<>> THEN <<>>
    ELSE IF Head(s) = c THEN Remove(Tail(s), c)
    ELSE <<Head(s)>> \o Remove(Tail(s), c)

Whitespace == {" ", "\n", "\t"}

\* Python: s.strip()
RECURSIVE Strip(_)
Strip(s) ==
    IF s = <<>> THEN <<>>
    ELSE IF Head(s) \in Whitespace THEN Strip(Tail(s))
    ELSE IF s[Len(s)] \in Whitespace THEN Strip(SubSeq(s, 1, Len(s) - 1))
    ELSE s

RECURSIVE DecimalValue(_)
DecimalValue(s) ==
    IF s = <<>> THEN 0
    ELSE 10 * DecimalValue(SubSeq(s, 1, Len(s) - 1)) + DigitVal(s[Len(s)])

\* Python: int(s): an optional sign and decimal digits, ValueError otherwise
ParseInt(s) ==
    LET signed == s # <<>> /\ Head(s) \in {"-", "+"}
        body == IF signed THEN Tail(s) ELSE s
    IN  IF body # <<>> /\ \A i \in 1..Len(body) : body[i] \in Digits
        THEN [exc |-> "none",
              v |-> IF signed /\ Head(s) = "-" THEN 0 - DecimalValue(body)
                    ELSE DecimalValue(body)]
        ELSE [exc |-> "ValueError", v |-> 0]

(***************************************************************************)
(* DataFrame cells and rows                                                *)
(***************************************************************************)
NaN == [t |-> "nan", v |-> <<>>]
StrCell(s) == [t |-> "str", v |-> s]

\* pandas: row.get(column, default)
RowGet(row, column, default) ==
    IF column \in DOMAIN row THEN row[column] ELSE default

(***************************************************************************)
(* clean_text: re.sub(r'\[.*?\]', '', text)                                *)
(***************************************************************************)
\* The first "]" after position i, or 0; "." does not match a newline.
ClosingBracket(s, i) ==
    LET js == {j \in (i + 1)..Len(s) : s[j] = "]"}
    IN  IF js = {} THEN 0
        ELSE LET j == CHOOSE x \in js : \A y \in js : x <= y
             IN  IF \E k \in (i + 1)..(j - 1) : s[k] = "\n" THEN 0 ELSE j

RECURSIVE CleanFrom(_, _)
CleanFrom(s, i) ==
    IF i > Len(s) THEN <<>>
    ELSE IF s[i] = "[" /\ ClosingBracket(s, i) # 0
         THEN CleanFrom(s, ClosingBracket(s, i) + 1)
         ELSE <<s[i]>> \o CleanFrom(s, i + 1)

clean_text(text) ==
    IF text.t # "str" THEN [exc |-> "TypeError", v |-> <<>>]
    ELSE [exc |-> "none", v |-> CleanFrom(text.v, 1)]

(***************************************************************************)
(* convert_timestamp_to_seconds                                            *)
(***************************************************************************)
convert_timestamp_to_seconds(timestamp) ==
    IF timestamp.t # "str"
    THEN [exc |-> "AttributeError", v |-> 0]   \* float has no .split
    ELSE LET parts == Split(timestamp.v, ":")
         IN  IF Len(parts) # 2 THEN [exc |-> "none", v |-> 0]
             ELSE LET minutes == ParseInt(parts[1])
                      seconds == ParseInt(parts[2])
                  IN  IF minutes.exc # "none" \/ seconds.exc # "none"
                      THEN [exc |-> "none", v |-> 0]
                      ELSE [exc |-> "none", v |-> minutes.v * 60 + seconds.v]

(***************************************************************************)
(* The object store (upload_file_to_s3, get_object) and uuid4              *)
(***************************************************************************)
S3_INPUT_FOLDER == "input/"
S3_SSML_FOLDER == "ssml/"
S3_AUDIO_FOLDER == "audio/"
S3_BUCKET_NAME == "bucket"

NoDf == [columns |-> <<>>, rows |-> <<>>]
NoFile == [kind |-> "none", df |-> NoDf]
NoKey == [folder |-> "", filename |-> [uuid |-> <<0, 0>>, ext |-> ""]]
NoPath == [bucket |-> "", key |-> NoKey]
EmptyStore == [k \in {} |-> 0]

\* uuid.uuid4(): a name no earlier call has produced
Uuid4(r, used) == <<r, Cardinality({u \in used : u[1] = r}) + 1>>

\* a fixed name instead of a generated one
SsmlFilenameFixed(u) == [uuid |-> <<0, 0>>, ext |-> ".ssml"]

CsvFilename(u) == [uuid |-> u, ext |-> ".csv"]
SsmlFilename(u) == [uuid |-> u, ext |-> ".ssml"]
AudioFilename(u) == [uuid |-> u, ext |-> ".wav"]

\* the key without the file name
S3KeyFolderOnly(folder, filename) ==
    [folder |-> folder, filename |-> [uuid |-> <<0, 0>>, ext |-> ""]]

\* Key=f"{folder}{filename}"
S3Key(folder, filename) == [folder |-> folder, filename |-> filename]

\* s3_client.put_object(Bucket, Key, Body): creates or replaces the object
PutObject(store, key, body) ==
    [k \in DOMAIN store \cup {key} |-> IF k = key THEN body ELSE store[k]]

\* the return value f"s3://{S3_BUCKET_NAME}/{folder}{filename}"
S3Path(key) == [bucket |-> S3_BUCKET_NAME, key |-> key]

\* ssml_s3_path.split(f"s3://{S3_BUCKET_NAME}/")[1]
KeyOfPath(path) == path.key

\* history of the writes: (key, writer) -> how many times
LogPut(log, key, r) ==
    LET e == [key |-> key, by |-> r]
    IN  [x \in DOMAIN log \cup {e} |->
            IF x = e THEN (IF e \in DOMAIN log THEN log[e] + 1 ELSE 1) ELSE log[x]]

CsvBody(file) == [type |-> "csv", file |-> file, doc |-> <<>>]
SsmlBody(content) == [type |-> "ssml", file |-> NoFile, doc |-> content]
\* response.content of the synthesis POST for ssml_data
AudioBody(ssml_data) == [type |-> "wav", file |-> NoFile, doc |-> ssml_data]

(***************************************************************************)
(* generate_ssml                                                           *)
(***************************************************************************)
SpeakOpen(xml_lang) == [tag |-> "speak", n |-> 0, name |-> xml_lang, text |-> <<>>]
SpeakClose == [tag |-> "/speak", n |-> 0, name |-> <<>>, text |-> <<>>]
Break(delay) == [tag |-> "break", n |-> delay, name |-> <<>>, text |-> <<>>]
Voice(voice, transcription) ==
    [tag |-> "voice", n |-> 0, name |-> voice, text |-> transcription]

\* the difference without the clamp
DelayUnclamped(timestamp_seconds, last_timestamp) ==
    timestamp_seconds - last_timestamp

\* delay = max(0, timestamp_seconds - last_timestamp)
Delay(timestamp_seconds, last_timestamp) ==
    Max(0, timestamp_seconds - last_timestamp)

\* voice = male_voice if speaker == 'spk_0' else female_voice
SelectVoice(speaker, male_voice, female_voice) ==
    IF speaker = StrCell(SPK0) THEN male_voice ELSE female_voice

\* the loop variables after line 136
LoopStart(xml_lang) ==
    [index |-> 1, last_timestamp |-> 0, ssml_content |-> <<SpeakOpen(xml_lang)>>,
     exc |-> "none", log |-> <<>>]

LogEntry(i, skipped, t, prev, delay, voice) ==
    [row |-> i, skipped |-> skipped, t |-> t, prev |-> prev, delay |-> delay,
     voice |-> voice]

\* one iteration of "for index, row in df.iterrows()"; log is a history field
RowStep(g, row, lang_column, male_voice, female_voice) ==
    LET speaker == RowGet(row, SPEAKER, StrCell(SPK0))
        transcription == clean_text(RowGet(row, lang_column, StrCell(<<>>)))
        ts == convert_timestamp_to_seconds(
                  RowGet(row, TIME_MARKERS, StrCell(<<"0", ":", "0", "0">>)))
        delay == Delay(ts.v, g.last_timestamp)
        voice == SelectVoice(speaker, male_voice, female_voice)
    IN  IF transcription.exc # "none"
        THEN [g EXCEPT !.exc = transcription.exc]
        ELSE IF transcription.v = <<>>
        THEN [g EXCEPT !.index = g.index + 1,
                       !.log = Append(g.log,
                           LogEntry(g.index, TRUE, 0, g.last_timestamp, 0, <<>>))]
        ELSE IF ts.exc # "none"
        THEN [g EXCEPT !.exc = ts.exc]
        ELSE [g EXCEPT
                !.index = g.index + 1,
                !.last_timestamp = ts.v,
                !.ssml_content =
                    g.ssml_content
                    \o (IF delay > 0 THEN <<Break(delay)>> ELSE <<>>)
                    \o <<Voice(voice, transcription.v)>>,
                !.log = Append(g.log,
                    LogEntry(g.index, FALSE, ts.v, g.last_timestamp, delay, voice))]

RECURSIVE RowLoop(_, _, _, _, _)
RowLoop(g, df, lang_column, male_voice, female_voice) ==
    IF g.exc # "none" \/ g.index > Len(df.rows) THEN g
    ELSE RowLoop(RowStep(g, df.rows[g.index], lang_column, male_voice, female_voice),
                 df, lang_column, male_voice, female_voice)

\* lines 131-154: the document, or the exception raised before the upload
SsmlContent(df, lang_column, male_voice, female_voice, xml_lang) ==
    IF ~(\E i \in 1..Len(df.columns) : df.columns[i] = lang_column)
    THEN [exc |-> "ValueError", content |-> <<>>]
    ELSE LET g == RowLoop(LoopStart(xml_lang), df, lang_column, male_voice, female_voice)
         IN  IF g.exc # "none" THEN [exc |-> g.exc, content |-> <<>>]
             ELSE [exc |-> "none", content |-> Append(g.ssml_content, SpeakClose)]

(***************************************************************************)
(* One call of generate_ssml, row by row                                   *)
(***************************************************************************)
GenCall(df) ==
    [df |-> df, lang_column |-> EN_COLUMN, male_voice |-> GUY, female_voice |-> JENNY,
     xml_lang |-> EN_US, at |-> "call", ssml_filename |-> SsmlFilename(<<0, 0>>),
     g |-> LoopStart(EN_US), ret |-> NoPath]

GenIdle == [GenCall(NoDf) EXCEPT !.at = "idle"]

\* lines 131-136
GenStart ==
    /\ gen.at = "call"
    /\ IF \E i \in 1..Len(gen.df.columns) : gen.df.columns[i] = gen.lang_column
       THEN /\ gen' = [gen EXCEPT !.at = "loop", !.g = LoopStart(gen.xml_lang),
                                  !.ssml_filename = SsmlFilename(Uuid4(0, uuids))]
            /\ uuids' = uuids \cup {Uuid4(0, uuids)}
       ELSE /\ gen' = [gen EXCEPT !.at = "raised", !.g.exc = "ValueError"]
            /\ UNCHANGED uuids
    /\ UNCHANGED <<input, pc, loc, response, s3, puts, gets, trace>>

\* lines 138-152, one row
GenRow ==
    /\ gen.at = "loop"
    /\ gen.g.index <= Len(gen.df.rows)
    /\ LET g2 == RowStep(gen.g, gen.df.rows[gen.g.index], gen.lang_column,
                         gen.male_voice, gen.female_voice)
       IN  gen' = [gen EXCEPT !.g = g2,
                              !.at = IF g2.exc # "none" THEN "raised" ELSE "loop"]
    /\ UNCHANGED <<input, pc, loc, response, s3, uuids, puts, gets, trace>>

\* lines 154-159; the store may refuse the write (ClientError)
GenUpload ==
    /\ gen.at = "loop"
    /\ gen.g.index > Len(gen.df.rows)
    /\ \E ok \in BOOLEAN :
         LET key == S3Key(S3_SSML_FOLDER, gen.ssml_filename)
             content == Append(gen.g.ssml_content, SpeakClose)
         IN  IF ok
             THEN /\ s3' = PutObject(s3, key, SsmlBody(content))
                  /\ puts' = LogPut(puts, key, 0)
                  /\ gen' = [gen EXCEPT !.at = "returned", !.ret = S3Path(key),
                                        !.g.ssml_content = content]
             ELSE /\ UNCHANGED <<s3, puts>>
                  /\ gen' = [gen EXCEPT !.at = "raised", !.g.exc = "ClientError",
                                        !.g.ssml_content = content]
    /\ UNCHANGED <<input, pc, loc, response, uuids, gets, trace>>

\* Tables: every cell combination of a few rows, and longer tables that vary
\* only the timestamp and whether the text survives cleaning.
RichSpeakers == {StrCell(SPK0), StrCell(SPK1), NaN}
RichTimes ==
    {StrCell(<<"0", ":", "0", "5">>), StrCell(<<"a", "b", "c", ":", "d", "e", "f">>),
     StrCell(<<"a", "b">>), StrCell(<<"0", ":", "0", ":", "5">>), NaN}
RichTexts == {StrCell(<<"a">>), StrCell(<<"b", "[", "c", "]">>), StrCell(<<"[", "c", "]">>), NaN}
TimedTimes ==
    {StrCell(<<"0", ":", "0", "0">>), StrCell(<<"0", ":", "0", "5">>),
     StrCell(<<"0", ":", "2", "0">>), StrCell(<<"1", ":", "0", "5">>)}
TimedTexts == {StrCell(<<"a">>), StrCell(<<"[", "c", "]">>)}

AllColumns == <<SPEAKER, TIME_MARKERS, EN_COLUMN>>

RichRows ==
    {(SPEAKER :> s) @@ (TIME_MARKERS :> t) @@ (EN_COLUMN :> x) :
        s \in RichSpeakers, t \in RichTimes, x \in RichTexts}
NoSpeakerRows ==
    {(TIME_MARKERS :> t) @@ (EN_COLUMN :> x) : t \in RichTimes, x \in RichTexts}
NoTimeRows ==
    {(SPEAKER :> s) @@ (EN_COLUMN :> x) : s \in RichSpeakers, x \in RichTexts}
NoTextRows ==
    {(SPEAKER :> s) @@ (TIME_MARKERS :> t) : s \in RichSpeakers, t \in {NaN}}
TimedRows ==
    {(SPEAKER :> StrCell(SPK0)) @@ (TIME_MARKERS :> t) @@ (EN_COLUMN :> x) :
        t \in TimedTimes, x \in TimedTexts}

\* the tables generate_ssml is called with: columns, row values, longest table
TableShapes ==
    {[columns |-> AllColumns, rows |-> RichRows, longest |-> MaxRows],
     [columns |-> <<TIME_MARKERS, EN_COLUMN>>, rows |-> NoSpeakerRows, longest |-> MaxRows],
     [columns |-> <<SPEAKER, EN_COLUMN>>, rows |-> NoTimeRows, longest |-> MaxRows],
     [columns |-> <<SPEAKER, TIME_MARKERS>>, rows |-> NoTextRows, longest |-> MaxRows],
     [columns |-> AllColumns, rows |-> TimedRows, longest |-> MaxTimedRows]}

InitSsml ==
    /\ \E shape \in TableShapes :
         \E n \in 0..shape.longest :
           \E rs \in [1..n -> shape.rows] :
             gen = GenCall([columns |-> shape.columns, rows |-> rs])
    /\ input = EmptyStore
    /\ pc = EmptyStore
    /\ loc = EmptyStore
    /\ response = EmptyStore
    /\ s3 = EmptyStore
    /\ uuids = {}
    /\ puts = EmptyStore
    /\ gets = {}
    /\ trace = EmptyStore

NextSsml == GenStart \/ GenRow \/ GenUpload

SpecSsml == InitSsml /\ [][NextSsml]_vars

(***************************************************************************)
(* upload_csv: pure parts                                                  *)
(***************************************************************************)
None == <<"None">>
\* Python truth of a string-or-None value
Truthy(x) == x # None /\ x # <<>>

\* source.strip().replace("\\", "").replace("\n", "").replace("\t", "")
CleanSource(source) == Remove(Remove(Remove(Strip(source), "\\"), "\n"), "\t")

\* v['Locale'].startswith(source_cleaned)
LocaleMatchesPrefix(source_cleaned, locale) ==
    /\ Len(source_cleaned) <= Len(locale)
    /\ SubSeq(locale, 1, Len(source_cleaned)) = source_cleaned

\* source_cleaned == v['Locale']
LocaleMatches(source_cleaned, locale) == source_cleaned = locale

\* [v for v in supported_voices if source_cleaned == v['Locale']]
RECURSIVE SourceVoices(_, _)
SourceVoices(supported_voices, source_cleaned) ==
    IF supported_voices = <<>> THEN <<>>
    ELSE (IF LocaleMatches(source_cleaned, Head(supported_voices).Locale)
          THEN <<Head(supported_voices)>> ELSE <<>>)
         \o SourceVoices(Tail(supported_voices), source_cleaned)

\* next((v['ShortName'] for v in source_voices if gender in v['Gender']), None)
RECURSIVE FirstShortName(_, _)
FirstShortName(source_voices, gender) ==
    IF source_voices = <<>> THEN None
    ELSE IF Contains(gender, Head(source_voices).Gender)
         THEN Head(source_voices).ShortName
         ELSE FirstShortName(Tail(source_voices), gender)

\* source_cleaned.split('-')[-1]
LocaleCode(source_cleaned) ==
    LET parts == Split(source_cleaned, "-") IN parts[Len(parts)]

RECURSIVE FindColumnFrom(_, _, _)
FindColumnFrom(columns, locale_code, i) ==
    IF i > Len(columns) THEN None
    ELSE IF Contains(locale_code, columns[i]) /\ EndsWith(columns[i], TRANSCRIPTION)
         THEN columns[i]
         ELSE FindColumnFrom(columns, locale_code, i + 1)

find_transcription_column(df, locale_code) == FindColumnFrom(df.columns, locale_code, 1)

\* df[transcription_column].dropna().iloc[0]
FirstTranscription(df, column) ==
    LET present == {i \in 1..Len(df.rows) : df.rows[i][column].t # "nan"}
    IN  IF present = {} THEN [exc |-> "IndexError", v |-> NaN]
        ELSE [exc |-> "none",
              v |-> df.rows[CHOOSE i \in present : \A j \in present : i <= j][column]]

\* detect_language: what langdetect answers for the text is the request's oracle
detect_language(oracle) ==
    IF oracle = "LangDetectException" THEN "unknown" ELSE oracle

\* the gate without its locale condition
LanguageMismatchAnyLocale(locale_code, detected_language) ==
    detected_language # "hi"

\* locale_code == "IN" and detected_language != "hi"
LanguageMismatch(locale_code, detected_language) ==
    locale_code = <<"I", "N">> /\ detected_language # "hi"

(***************************************************************************)
(* upload_csv: payloads and the two except clauses                         *)
(***************************************************************************)
Pending == [pending |-> TRUE]
ErrorPayload(text, exc) == [error |-> [text |-> text, exc |-> exc]]
SuccessPayload(english, language) ==
    [message |-> "Audio files generated successfully",
     english_audio_link |-> english, language_audio_link |-> language]
Escaped(exc) == [escaped |-> exc]

ValueErrors == {"ValueError", "UnicodeDecodeError", "EmptyDataError"}
Exceptions ==
    ValueErrors \cup {"TypeError", "AttributeError", "IndexError", "ClientError", "Exception"}

\* the handler without its second except clause
CatchValueErrorOnly(exc) ==
    IF exc \in ValueErrors THEN ErrorPayload("str(ve)", exc) ELSE Escaped(exc)

\* except ValueError / except Exception
Catch(exc) ==
    IF exc \in ValueErrors THEN ErrorPayload("str(ve)", exc)
    ELSE IF exc \in Exceptions THEN ErrorPayload("Error processing file.", exc)
    ELSE Escaped(exc)

(***************************************************************************)
(* upload_csv: one action per step between two external calls              *)
(***************************************************************************)
StepOrder ==
    <<"parse", "put_input", "get_voices", "resolve", "gen_en", "synth_en",
      "put_audio_en", "find_column", "lang_check", "gen_src", "synth_src",
      "put_audio_src", "respond">>

StepIndex(step) == CHOOSE i \in 1..Len(StepOrder) : StepOrder[i] = step

\* a handler that logs the error and goes on
AfterNoAbort(step, ok) ==
    IF StepIndex(step) < Len(StepOrder) THEN StepOrder[StepIndex(step) + 1]
    ELSE "done"

\* the statement after a step: the next one, or out of the handler on a return
\* or an exception
After(step, ok) ==
    IF ok /\ StepIndex(step) < Len(StepOrder) THEN StepOrder[StepIndex(step) + 1]
    ELSE "done"

LocStart ==
    [source_cleaned |-> <<>>, df |-> NoDf, supported_voices |-> <<>>,
     male_voice |-> None, female_voice |-> None,
     ssml_file_path_en |-> NoPath, audio_file_en |-> NoPath,
     locale_code |-> <<>>, transcription_column |-> None,
     detected_language |-> "",
     ssml_file_path_source |-> NoPath, audio_file_source |-> NoPath,
     content |-> SsmlBody(<<>>)]

Requests == DOMAIN input

Step(r, step, ok, newloc, payload) ==
    /\ pc' = [pc EXCEPT ![r] = After(step, ok)]
    /\ loc' = [loc EXCEPT ![r] = newloc]
    /\ response' = [response EXCEPT ![r] = IF ok THEN @ ELSE payload]
    /\ trace' = [trace EXCEPT ![r] = Append(@, [step |-> step, ok |-> ok])]

\* lines 244-250
ReadAndParse(r) ==
    /\ pc[r] = "start"
    /\ LET file == input[r].file
           l == [loc[r] EXCEPT !.source_cleaned = CleanSource(input[r].source),
                               !.df = file.df]
       IN  IF file.kind = "bad_utf8"
           THEN Step(r, "parse", FALSE, l,
                     ErrorPayload("File encoding is not supported.", "none"))
           ELSE IF file.kind = "empty"
           THEN Step(r, "parse", FALSE, l, Catch("EmptyDataError"))
           ELSE Step(r, "parse", TRUE, l, Pending)
    /\ UNCHANGED <<gen, input, s3, uuids, puts, gets>>

\* lines 253-254
PutInput(r) ==
    /\ pc[r] = "put_input"
    /\ \E ok \in BOOLEAN :
         LET u == Uuid4(r, uuids)
             key == S3Key(S3_INPUT_FOLDER, CsvFilename(u))
         IN  /\ uuids' = uuids \cup {u}
             /\ IF ok
                THEN /\ s3' = PutObject(s3, key, CsvBody(input[r].file))
                     /\ puts' = LogPut(puts, key, r)
                ELSE UNCHANGED <<s3, puts>>
             /\ Step(r, "put_input", ok, loc[r], Catch("ClientError"))
    /\ UNCHANGED <<gen, input, gets>>

\* line 256: get_supported_voices (the secret, then the HTTP GET)
get_supported_voices(r) ==
    /\ pc[r] = "get_voices"
    /\ \E res \in {"ok", "ClientError", "Exception"} :
         Step(r, "get_voices", res = "ok",
              [loc[r] EXCEPT !.supported_voices =
                  IF res = "ok" THEN input[r].voices ELSE @],
              Catch(res))
    /\ UNCHANGED <<gen, input, s3, uuids, puts, gets>>

\* lines 258-269
ResolveLocale(r) ==
    /\ pc[r] = "resolve"
    /\ LET source_voices == SourceVoices(loc[r].supported_voices, loc[r].source_cleaned)
           male_voice == FirstShortName(source_voices, MALE)
           female_voice == FirstShortName(source_voices, FEMALE)
       IN  IF source_voices = <<>>
           THEN Step(r, "resolve", FALSE, loc[r],
                     ErrorPayload("Invalid locale specified or locale not supported.", "none"))
           ELSE IF ~Truthy(male_voice) \/ ~Truthy(female_voice)
           THEN Step(r, "resolve", FALSE,
                     [loc[r] EXCEPT !.male_voice = male_voice,
                                    !.female_voice = female_voice],
                     ErrorPayload("Male or female voice not found", "none"))
           ELSE Step(r, "resolve", TRUE,
                     [loc[r] EXCEPT !.male_voice = male_voice,
                                    !.female_voice = female_voice],
                     Pending)
    /\ UNCHANGED <<gen, input, s3, uuids, puts, gets>>

\* a call of generate_ssml from upload_csv (lines 272 and 289)
generate_ssml(r, step, lang_column, male_voice, female_voice, xml_lang, field) ==
    \E stored \in BOOLEAN :
      LET res == SsmlContent(loc[r].df, lang_column, male_voice, female_voice, xml_lang)
          u == Uuid4(r, uuids)
          key == S3Key(S3_SSML_FOLDER, SsmlFilename(u))
          ok == res.exc = "none" /\ stored
      IN  /\ uuids' = IF res.exc = "ValueError" THEN uuids ELSE uuids \cup {u}
          /\ IF ok
             THEN /\ s3' = PutObject(s3, key, SsmlBody(res.content))
                  /\ puts' = LogPut(puts, key, r)
             ELSE UNCHANGED <<s3, puts>>
          /\ Step(r, step, ok,
                  [loc[r] EXCEPT ![field] = IF ok THEN S3Path(key) ELSE @],
                  Catch(IF res.exc # "none" THEN res.exc ELSE "ClientError"))
          /\ UNCHANGED <<gen, input, gets>>

\* convert_ssml_to_audio up to the answer of the synthesis POST (lines 163-186)
convert_ssml_to_audio(r, step, field) ==
    \E res \in {"ok", "ClientError", "Exception"} :
      LET key == KeyOfPath(loc[r][field])
          found == key \in DOMAIN s3
          ok == res = "ok" /\ found
      IN  /\ gets' = IF res = "ClientError" \/ ~found THEN gets
                     ELSE gets \cup {[key |-> key, by |-> r]}
          /\ Step(r, step, ok,
                  [loc[r] EXCEPT !.content = IF ok THEN AudioBody(s3[key].doc) ELSE @],
                  Catch(IF found THEN res ELSE "ClientError"))
          /\ UNCHANGED <<gen, input, s3, uuids, puts>>

\* convert_ssml_to_audio, lines 187-191
upload_audio(r, step, field) ==
    \E ok \in BOOLEAN :
      LET u == Uuid4(r, uuids)
          key == S3Key(S3_AUDIO_FOLDER, AudioFilename(u))
      IN  /\ uuids' = uuids \cup {u}
          /\ IF ok
             THEN /\ s3' = PutObject(s3, key, loc[r].content)
                  /\ puts' = LogPut(puts, key, r)
             ELSE UNCHANGED <<s3, puts>>
          /\ Step(r, step, ok,
                  [loc[r] EXCEPT ![field] = IF ok THEN S3Path(key) ELSE @],
                  Catch("ClientError"))
          /\ UNCHANGED <<gen, input, gets>>

GenerateEnglish(r) ==
    /\ pc[r] = "gen_en"
    /\ generate_ssml(r, "gen_en", EN_COLUMN, GUY, JENNY, EN_US, "ssml_file_path_en")

SynthesizeEnglish(r) ==
    /\ pc[r] = "synth_en"
    /\ convert_ssml_to_audio(r, "synth_en", "ssml_file_path_en")

PutAudioEnglish(r) ==
    /\ pc[r] = "put_audio_en"
    /\ upload_audio(r, "put_audio_en", "audio_file_en")

\* lines 275-280
FindColumn(r) ==
    /\ pc[r] = "find_column"
    /\ LET locale_code == LocaleCode(loc[r].source_cleaned)
           column == find_transcription_column(loc[r].df, locale_code)
           l == [loc[r] EXCEPT !.locale_code = locale_code,
                               !.transcription_column = column]
       IN  Step(r, "find_column", Truthy(column), l,
                ErrorPayload("CSV must contain a column for the specified language.", "none"))
    /\ UNCHANGED <<gen, input, s3, uuids, puts, gets>>

\* lines 282-287
LanguageCheck(r) ==
    /\ pc[r] = "lang_check"
    /\ LET first == FirstTranscription(loc[r].df, loc[r].transcription_column)
           detected_language == detect_language(input[r].detect)
           l == [loc[r] EXCEPT !.detected_language = detected_language]
       IN  IF first.exc # "none"
           THEN Step(r, "lang_check", FALSE, loc[r], Catch(first.exc))
           ELSE IF LanguageMismatch(loc[r].locale_code, detected_language)
           THEN Step(r, "lang_check", FALSE, l,
                     ErrorPayload("Detected language does not match 'Hindi'.", "none"))
           ELSE Step(r, "lang_check", TRUE, l, Pending)
    /\ UNCHANGED <<gen, input, s3, uuids, puts, gets>>

GenerateSource(r) ==
    /\ pc[r] = "gen_src"
    /\ generate_ssml(r, "gen_src", loc[r].transcription_column, loc[r].male_voice,
                loc[r].female_voice, loc[r].source_cleaned, "ssml_file_path_source")

SynthesizeSource(r) ==
    /\ pc[r] = "synth_src"
    /\ convert_ssml_to_audio(r, "synth_src", "ssml_file_path_source")

PutAudioSource(r) ==
    /\ pc[r] = "put_audio_src"
    /\ upload_audio(r, "put_audio_src", "audio_file_source")

\* lines 293-297
Respond(r) ==
    /\ pc[r] = "respond"
    /\ pc' = [pc EXCEPT ![r] = After("respond", TRUE)]
    /\ response' = [response EXCEPT ![r] =
                       SuccessPayload(loc[r].audio_file_en, loc[r].audio_file_source)]
    /\ trace' = [trace EXCEPT ![r] = Append(@, [step |-> "respond", ok |-> TRUE])]
    /\ UNCHANGED <<gen, input, loc, s3, uuids, puts, gets>>

Next ==
    \/ \E r \in Requests : ReadAndParse(r)
    \/ \E r \in Requests : PutInput(r)
    \/ \E r \in Requests : get_supported_voices(r)
    \/ \E r \in Requests : ResolveLocale(r)
    \/ \E r \in Requests : GenerateEnglish(r)
    \/ \E r \in Requests : SynthesizeEnglish(r)
    \/ \E r \in Requests : PutAudioEnglish(r)
    \/ \E r \in Requests : FindColumn(r)
    \/ \E r \in Requests : LanguageCheck(r)
    \/ \E r \in Requests : GenerateSource(r)
    \/ \E r \in Requests : SynthesizeSource(r)
    \/ \E r \in Requests : PutAudioSource(r)
    \/ \E r \in Requests : Respond(r)

(***************************************************************************)
(* Requests: what a client uploads and what the services answer            *)
(***************************************************************************)
Row5(speaker, time, en, hi, us) ==
    (SPEAKER :> speaker) @@ (TIME_MARKERS :> time) @@ (EN_COLUMN :> en)
    @@ (IN_COLUMN :> hi) @@ (US_COLUMN :> us)

FullColumns == <<SPEAKER, TIME_MARKERS, EN_COLUMN, IN_COLUMN, US_COLUMN>>
T0 == StrCell(<<"0", ":", "0", "0">>)
T5 == StrCell(<<"0", ":", "0", "5">>)
TxtA == StrCell(<<"a">>)
TxtB == StrCell(<<"b", "[", "c", "]">>)

FirstRow == Row5(StrCell(SPK0), T0, TxtA, TxtB, TxtA)
SecondRow == Row5(StrCell(SPK1), T5, TxtB, TxtA, TxtB)

TableFull == [columns |-> FullColumns, rows |-> <<FirstRow, SecondRow>>]
TableExample ==
    [columns |-> <<EN_COLUMN, IN_COLUMN>>,
     rows |-> <<(EN_COLUMN :> TxtA) @@ (IN_COLUMN :> TxtB)>>]
TableNoEnglish ==
    [columns |-> <<SPEAKER, TIME_MARKERS, IN_COLUMN>>,
     rows |-> <<(SPEAKER :> StrCell(SPK0)) @@ (TIME_MARKERS :> T0) @@ (IN_COLUMN :> TxtA)>>]
TableEmptyEnglishCell ==
    [columns |-> FullColumns,
     rows |-> <<FirstRow, [SecondRow EXCEPT ![EN_COLUMN] = NaN]>>]
TableEmptyTimeCell ==
    [columns |-> FullColumns,
     rows |-> <<FirstRow, [SecondRow EXCEPT ![TIME_MARKERS] = NaN]>>]
TableEmptySourceCell ==
    [columns |-> FullColumns,
     rows |-> <<FirstRow, [SecondRow EXCEPT ![IN_COLUMN] = NaN, ![US_COLUMN] = NaN]>>]
TableNoSourceText ==
    [columns |-> FullColumns,
     rows |-> <<[FirstRow EXCEPT ![IN_COLUMN] = NaN, ![US_COLUMN] = NaN],
                [SecondRow EXCEPT ![IN_COLUMN] = NaN, ![US_COLUMN] = NaN]>>]
TableNoRows == [columns |-> FullColumns, rows |-> <<>>]

CsvFile(df) == [kind |-> "csv", df |-> df]
Files ==
    {[kind |-> "bad_utf8", df |-> NoDf], [kind |-> "empty", df |-> NoDf]}
    \cup {CsvFile(df) : df \in
            {TableFull, TableExample, TableNoEnglish, TableEmptyEnglishCell,
             TableEmptyTimeCell, TableEmptySourceCell, TableNoSourceText, TableNoRows}}

Sources ==
    {HI_IN, <<" ">> \o HI_IN \o <<"\n">>, <<"h", "i", "\\", "-", "I", "N">>,
     EN_US, FR_FR, <<"e", "n">>}

VoiceEntry(locale, short_name, gender) ==
    [Locale |-> locale, ShortName |-> short_name, Gender |-> gender]

CatalogExample ==
    <<VoiceEntry(EN_US, <<"A">>, MALE), VoiceEntry(EN_US, <<"B">>, FEMALE)>>
CatalogFull ==
    <<VoiceEntry(HI_IN, <<"H", "F">>, FEMALE), VoiceEntry(EN_US, <<"B">>, FEMALE),
      VoiceEntry(HI_IN, <<"H", "M">>, MALE), VoiceEntry(EN_US, <<"A">>, MALE),
      VoiceEntry(HI_IN, <<"H", "M", "2">>, MALE), VoiceEntry(HI_IN, <<"H", "F", "2">>, FEMALE)>>
CatalogNoMale ==
    <<VoiceEntry(HI_IN, <<"H", "F">>, FEMALE), VoiceEntry(EN_US, <<"A">>, MALE)>>
Catalogs == {CatalogExample, CatalogFull, CatalogNoMale, <<>>}

Detections == {"hi", "en", "LangDetectException"}

Inputs == [source : Sources, file : Files, voices : Catalogs, detect : Detections]

ConcurrentInputs ==
    [source : {HI_IN, FR_FR}, file : {CsvFile(TableFull)}, voices : {CatalogFull},
     detect : {"hi"}]

InitRequests(rs, inputs) ==
    /\ gen = GenIdle
    /\ input \in [rs -> inputs]
    /\ pc = [r \in rs |-> "start"]
    /\ loc = [r \in rs |-> LocStart]
    /\ response = [r \in rs |-> Pending]
    /\ s3 = EmptyStore
    /\ uuids = {}
    /\ puts = EmptyStore
    /\ gets = {}
    /\ trace = [r \in rs |-> <<>>]

Init == InitRequests({1}, Inputs)
Spec == Init /\ [][Next]_vars

InitConc == InitRequests(1..NumRequests, ConcurrentInputs)
SpecConc == InitConc /\ [][Next]_vars

(***************************************************************************)
(* Properties of generate_ssml (SpecSsml)                                  *)
(***************************************************************************)
Entries == gen.g.log
Spoken == {k \in 1..Len(Entries) : ~Entries[k].skipped}
RowOf(k) == gen.df.rows[Entries[k].row]

\* the timestamp of the last spoken row before log entry k, 0 if there is none
PreviousTimestamp(k) ==
    LET before == {j \in Spoken : j < k}
    IN  IF before = {} THEN 0
        ELSE Entries[CHOOSE j \in before : \A i \in before : i <= j].t

\* the segments the log's rows call for: a break of delay seconds right before
\* the voice segment exactly when delay > 0
RECURSIVE SegmentsFrom(_)
SegmentsFrom(k) ==
    IF k > Len(Entries) THEN <<>>
    ELSE (IF Entries[k].skipped THEN <<>>
          ELSE (IF Entries[k].delay > 0 THEN <<Break(Entries[k].delay)>> ELSE <<>>)
               \o <<Voice(Entries[k].voice, clean_text(RowOf(k)[gen.lang_column]).v)>>)
         \o SegmentsFrom(k + 1)

Body(content) ==
    SubSeq(content, 2,
           IF content[Len(content)].tag = "/speak" THEN Len(content) - 1 ELSE Len(content))

ExampleTimes ==
    <<StrCell(<<"0", ":", "0", "0">>), StrCell(<<"0", ":", "0", "5">>),
      StrCell(<<"0", ":", "0", "5">>), StrCell(<<"0", ":", "2", "0">>)>>

IsExampleTable ==
    /\ Len(gen.df.rows) = 4
    /\ \A i \in 1..4 :
         /\ TIME_MARKERS \in DOMAIN gen.df.rows[i]
         /\ gen.df.rows[i][TIME_MARKERS] = ExampleTimes[i]
         /\ EN_COLUMN \in DOMAIN gen.df.rows[i]
         /\ gen.df.rows[i][EN_COLUMN] = StrCell(<<"a">>)

InLoop == gen.at \in {"loop", "returned"} \/ (gen.at = "raised" /\ gen.g.exc # "ValueError")

\* C3: every spoken row has delay = max(0, t - prev), prev being the timestamp of
\* the previous spoken row (0 at first); prev becomes t whatever the delay; a
\* break of exactly delay seconds stands right before the row's voice segment
\* iff delay > 0, so no break is zero or negative; skipped rows leave prev
\* alone; the timestamps 0:00, 0:05, 0:05, 0:20 give the delays 0, 5, 0, 15.
C3_Delay ==
    InLoop =>
        /\ \A k \in Spoken :
             /\ Entries[k].t =
                    convert_timestamp_to_seconds(
                        RowGet(RowOf(k), TIME_MARKERS, StrCell(<<"0", ":", "0", "0">>))).v
             /\ Entries[k].prev = PreviousTimestamp(k)
             /\ Entries[k].delay = Max(0, Entries[k].t - Entries[k].prev)
        /\ gen.g.last_timestamp = PreviousTimestamp(Len(Entries) + 1)
        /\ Body(gen.g.ssml_content) = SegmentsFrom(1)
        /\ \A i \in 1..Len(gen.g.ssml_content) :
             gen.g.ssml_content[i].tag = "break" =>
                /\ gen.g.ssml_content[i].n > 0
                /\ i < Len(gen.g.ssml_content)
                /\ gen.g.ssml_content[i + 1].tag = "voice"
        /\ (IsExampleTable /\ gen.at = "returned") =>
             /\ [k \in 1..4 |-> Entries[k].delay] = <<0, 5, 0, 15>>
             /\ [i \in 1..Len(gen.g.ssml_content) |-> gen.g.ssml_content[i].n]
                    = <<0, 0, 5, 0, 0, 15, 0, 0>>

\* the example table has been generated
C3_Witness ==
    /\ IsExampleTable
    /\ gen.at = "returned"
    /\ [k \in 1..4 |-> Entries[k].delay] = <<0, 5, 0, 15>>

\* what the claims call the cleaned text of a cell: nothing for a missing cell
CleanedOrEmpty(cell) == IF cell.t = "str" THEN CleanFrom(cell.v, 1) ELSE <<>>

RECURSIVE ExpectedTexts(_, _)
ExpectedTexts(rows, column) ==
    IF rows = <<>> THEN <<>>
    ELSE (IF CleanedOrEmpty(RowGet(Head(rows), column, StrCell(<<>>))) = <<>> THEN <<>>
          ELSE <<CleanedOrEmpty(RowGet(Head(rows), column, StrCell(<<>>)))>>)
         \o ExpectedTexts(Tail(rows), column)

RECURSIVE VoiceTexts(_)
VoiceTexts(content) ==
    IF content = <<>> THEN <<>>
    ELSE (IF Head(content).tag = "voice" THEN <<Head(content).text>> ELSE <<>>)
         \o VoiceTexts(Tail(content))

ColumnPresent == \E i \in 1..Len(gen.df.columns) : gen.df.columns[i] = gen.lang_column
TimeCellsPresent ==
    \A i \in 1..Len(gen.df.rows) :
        RowGet(gen.df.rows[i], TIME_MARKERS, StrCell(<<>>)).t = "str"

\* C4: with the target column present generate_ssml succeeds, and the document
\* has exactly one voice segment per row whose cleaned text is non-empty, in row
\* order, carrying that text; a row whose cell is empty, missing or only
\* bracketed annotations is skipped.  (Stated for tables whose Time Markers
\* cells are all present and for a store that accepts the write.)
C4_OneVoicePerRow ==
    (/\ gen.at \in {"returned", "raised"}
     /\ ColumnPresent
     /\ TimeCellsPresent
     /\ gen.g.exc # "ClientError")
    => /\ gen.at = "returned"
       /\ VoiceTexts(gen.g.ssml_content) = ExpectedTexts(gen.df.rows, gen.lang_column)

\* C5: a spoken row gets the male voice when its speaker is 'spk_0' or not
\* assigned (Speaker column absent, or the Speaker cell missing), the female
\* voice otherwise.
C5_VoiceSelection ==
    InLoop =>
        \A k \in Spoken :
            LET speaker == RowGet(RowOf(k), SPEAKER, NaN)
            IN  Entries[k].voice =
                    IF speaker = StrCell(SPK0) \/ speaker = NaN
                    THEN gen.male_voice ELSE gen.female_voice

\* a Time Markers value that is not two colon-separated integers
Malformed(cell) ==
    \/ cell.t # "str"
    \/ Len(Split(cell.v, ":")) # 2
    \/ \E i \in 1..Len(Split(cell.v, ":")) : ParseInt(Split(cell.v, ":")[i]).exc # "none"

\* C6: no row is rejected for its timestamp: a Time Markers value that is not
\* two colon-separated integers (missing cell included) counts as 0 without
\* raising, the row's delay is max(0, 0 - prev), and prev is 0 afterwards.
C6_BadTimestampIsZero ==
    /\ gen.g.exc # "AttributeError"
    /\ InLoop =>
         \A k \in Spoken :
            Malformed(RowGet(RowOf(k), TIME_MARKERS, StrCell(<<"0", ":", "0", "0">>))) =>
                /\ Entries[k].t = 0
                /\ Entries[k].delay = Max(0, 0 - Entries[k].prev)
                /\ PreviousTimestamp(k + 1) = 0

(***************************************************************************)
(* Properties of upload_csv (Spec, SpecConc)                               *)
(***************************************************************************)
ArtifactsOf(r) == {e.key : e \in {x \in DOMAIN puts : x.by = r}}
ArtifactsIn(r, folder) == {k \in ArtifactsOf(r) : k.folder = folder}
Executed(r, step) == Len(trace[r]) >= StepIndex(step)
Succeeded(r, step) == Executed(r, step) /\ trace[r][StepIndex(step)].ok
Failed(r, step) == Executed(r, step) /\ ~trace[r][StepIndex(step)].ok
IsError(p) == DOMAIN p = {"error"}
IsSuccess(p) == DOMAIN p = {"message", "english_audio_link", "language_audio_link"}

\* the two documents of a request, from what the client uploaded
EnglishDoc(r) == SsmlContent(input[r].file.df, EN_COLUMN, GUY, JENNY, EN_US).content
SourceDoc(r) ==
    SsmlContent(input[r].file.df, loc[r].transcription_column, loc[r].male_voice,
                loc[r].female_voice, CleanSource(input[r].source)).content

IsStoredAudio(r, path, doc) ==
    /\ path.bucket = S3_BUCKET_NAME
    /\ path.key.folder = S3_AUDIO_FOLDER
    /\ path.key \in ArtifactsOf(r)
    /\ path.key \in DOMAIN s3
    /\ s3[path.key] = AudioBody(doc)

\* C1: a request ends with the success payload or with a payload carrying only
\* error; a failure at any step becomes the error payload and does not leave
\* the handler; the success payload comes only with both audio artifacts
\* stored, and its links are their storage references.
C1_Outcome ==
    \A r \in Requests :
        /\ pc[r] # "done" => DOMAIN response[r] = {"pending"}
        /\ pc[r] = "done" =>
             \/ /\ IsError(response[r])
                /\ trace[r] # <<>>
                /\ ~trace[r][Len(trace[r])].ok
             \/ /\ IsSuccess(response[r])
                /\ \A i \in 1..Len(trace[r]) : trace[r][i].ok
                /\ IsStoredAudio(r, response[r].english_audio_link, EnglishDoc(r))
                /\ IsStoredAudio(r, response[r].language_audio_link, SourceDoc(r))
                /\ response[r].english_audio_link # response[r].language_audio_link
        /\ (trace[r] # <<>> /\ ~trace[r][Len(trace[r])].ok) =>
             pc[r] = "done" /\ IsError(response[r])

\* a request has answered with both links
C1_Witness ==
    \E r \in Requests :
        /\ pc[r] = "done"
        /\ IsSuccess(response[r])
        /\ Cardinality(ArtifactsIn(r, S3_AUDIO_FOLDER)) = 2

\* C2: the steps of a request run in the order load and persist, resolve the
\* voices, English markup and audio, source column, language check, source
\* markup and audio, return; none is repeated or revisited; a step runs only
\* if every earlier one succeeded, and nothing runs after an abort.
C2_StepOrder ==
    \A r \in Requests :
        /\ Len(trace[r]) <= Len(StepOrder)
        /\ \A i \in 1..Len(trace[r]) : trace[r][i].step = StepOrder[i]
        /\ \A i \in 1..(Len(trace[r]) - 1) : trace[r][i].ok
        /\ Failed(r, StepOrder[Max(1, Len(trace[r]))]) => pc[r] = "done"
        /\ pc[r] # "done" =>
             pc[r] = IF trace[r] = <<>> THEN "start" ELSE StepOrder[Len(trace[r]) + 1]
        /\ Succeeded(r, "put_input") => Cardinality(ArtifactsIn(r, S3_INPUT_FOLDER)) = 1
        /\ Succeeded(r, "resolve") => Truthy(loc[r].male_voice) /\ Truthy(loc[r].female_voice)
        /\ Cardinality(ArtifactsIn(r, S3_SSML_FOLDER)) =
             (IF Succeeded(r, "gen_en") THEN 1 ELSE 0) + (IF Succeeded(r, "gen_src") THEN 1 ELSE 0)
        /\ Cardinality(ArtifactsIn(r, S3_AUDIO_FOLDER)) =
             (IF Succeeded(r, "put_audio_en") THEN 1 ELSE 0)
             + (IF Succeeded(r, "put_audio_src") THEN 1 ELSE 0)

\* a request aborted at the language check, after eight steps that succeeded
C2_Witness ==
    \E r \in Requests :
        /\ Failed(r, "lang_check")
        /\ pc[r] = "done"
        /\ Len(trace[r]) = 9

\* C7: only catalog entries whose Locale equals the requested locale count; the
\* voices are the ShortName of the first such entry whose Gender contains
\* "Male" and of the first whose Gender contains "Female"; without a match, a
\* male or a female voice the request returns an error payload (not an
\* exception) and stores no markup or audio.  Over [en-US/Male/A,
\* en-US/Female/B], "en-US" gives (A, B) and "fr-FR" an error.
C7_LocaleResolution ==
    \A r \in Requests :
        Executed(r, "resolve") =>
            LET cat == input[r].voices
                req == CleanSource(input[r].source)
                males == {i \in 1..Len(cat) :
                            cat[i].Locale = req /\ Contains(MALE, cat[i].Gender)}
                females == {i \in 1..Len(cat) :
                            cat[i].Locale = req /\ Contains(FEMALE, cat[i].Gender)}
                First(S) == CHOOSE i \in S : \A j \in S : i <= j
            IN  /\ IF males # {} /\ females # {}
                   THEN /\ Succeeded(r, "resolve")
                        /\ loc[r].male_voice = cat[First(males)].ShortName
                        /\ loc[r].female_voice = cat[First(females)].ShortName
                   ELSE /\ Failed(r, "resolve")
                        /\ pc[r] = "done"
                        /\ IsError(response[r])
                        /\ response[r].error.exc = "none"
                        /\ ArtifactsOf(r) = ArtifactsIn(r, S3_INPUT_FOLDER)
                /\ (cat = CatalogExample /\ req = EN_US) =>
                     loc[r].male_voice = <<"A">> /\ loc[r].female_voice = <<"B">>
                /\ (cat = CatalogExample /\ req = FR_FR) => IsError(response[r])

\* hi-IN resolved over a catalog whose first hi-IN entry is not the male one
C7_Witness ==
    \E r \in Requests :
        /\ Succeeded(r, "resolve")
        /\ input[r].voices = CatalogFull
        /\ loc[r].source_cleaned = HI_IN
        /\ loc[r].male_voice = <<"H", "M">>
        /\ loc[r].female_voice = <<"H", "F">>

\* C8: with locale code "IN" and a detected language other than "hi" (the
\* sentinel "unknown" included) the request fails with the mismatch error and
\* stores no source markup or audio; for any other locale code the check is
\* skipped: whatever detection yields, the language check passes.
C8_LanguageGate ==
    \A r \in Requests :
        (/\ Executed(r, "lang_check")
         /\ FirstTranscription(input[r].file.df, loc[r].transcription_column).exc = "none")
        => LET code == LocaleCode(CleanSource(input[r].source))
               detected == detect_language(input[r].detect)
           IN  /\ (code = <<"I", "N">> /\ detected # "hi") =>
                    /\ Failed(r, "lang_check")
                    /\ pc[r] = "done"
                    /\ IsError(response[r])
                    /\ response[r].error.exc = "none"
                    /\ ArtifactsIn(r, S3_SSML_FOLDER) = {loc[r].ssml_file_path_en.key}
                    /\ ArtifactsIn(r, S3_AUDIO_FOLDER) = {loc[r].audio_file_en.key}
               /\ (code = <<"I", "N">> /\ detected = "hi") => Succeeded(r, "lang_check")
               /\ code # <<"I", "N">> =>
                    /\ Succeeded(r, "lang_check")
                    /\ \A d \in Detections : ~LanguageMismatch(code, detect_language(d))

\* an "IN" request whose detection failed was refused
C8_Witness ==
    \E r \in Requests :
        /\ Failed(r, "lang_check")
        /\ loc[r].locale_code = <<"I", "N">>
        /\ loc[r].detected_language = "unknown"
        /\ IsError(response[r])

C9_Leftovers ==
    /\ \A e \in DOMAIN puts : puts[e] = 1 /\ e.key \in DOMAIN s3
    /\ \A r \in Requests :
         /\ Failed(r, "resolve") =>
              /\ Cardinality(ArtifactsOf(r)) = 1
              /\ \A k \in ArtifactsOf(r) :
                   k.folder = S3_INPUT_FOLDER /\ s3[k] = CsvBody(input[r].file)
         /\ (Failed(r, "find_column") \/ Failed(r, "lang_check")) =>
              /\ Cardinality(ArtifactsOf(r)) = 3
              /\ \A k \in ArtifactsIn(r, S3_INPUT_FOLDER) : s3[k] = CsvBody(input[r].file)
              /\ ArtifactsIn(r, S3_SSML_FOLDER) = {loc[r].ssml_file_path_en.key}
              /\ s3[loc[r].ssml_file_path_en.key] = SsmlBody(EnglishDoc(r))
              /\ ArtifactsIn(r, S3_AUDIO_FOLDER) = {loc[r].audio_file_en.key}
              /\ s3[loc[r].audio_file_en.key] = AudioBody(EnglishDoc(r))

\* C9: the store only grows: no step deletes or overwrites an object, so a
\* failed request leaves what its earlier steps stored: its input alone when
\* the locale is not resolved; its input, English markup and English audio
\* when the source column is missing or the language check fails.
C9_StoreOnlyGrows ==
    /\ [][\A k \in DOMAIN s3 : k \in DOMAIN s3' /\ s3'[k] = s3[k]]_vars
    /\ []C9_Leftovers

\* a request refused at the language check, its three artifacts in the store
C9_Witness ==
    \E r \in Requests :
        /\ Failed(r, "lang_check")
        /\ Cardinality(ArtifactsOf(r)) = 3
        /\ ArtifactsOf(r) \subseteq DOMAIN s3

\* C10: with requests interleaved at their external calls no two writes, of
\* one request or of two, go to the same key; a request writes at most five
\* objects and reads only what it wrote; what it stores and answers is what
\* it would store and answer alone.
C10_NoContention ==
    /\ \A e \in DOMAIN puts : puts[e] = 1
    /\ \A e1, e2 \in DOMAIN puts : e1.key = e2.key => e1.by = e2.by
    /\ \A g \in gets : g \in DOMAIN puts
    /\ \A r \in Requests :
         /\ Cardinality(ArtifactsOf(r)) <= 5
         /\ \A k \in ArtifactsOf(r) :
              /\ k \in DOMAIN s3
              /\ s3[k] \in {CsvBody(input[r].file),
                            SsmlBody(EnglishDoc(r)), AudioBody(EnglishDoc(r)),
                            SsmlBody(SourceDoc(r)), AudioBody(SourceDoc(r))}
         /\ Executed(r, "resolve") =>
              (Succeeded(r, "resolve") <=> CleanSource(input[r].source) = HI_IN)
         /\ (pc[r] = "done" /\ IsSuccess(response[r])) =>
              /\ IsStoredAudio(r, response[r].english_audio_link, EnglishDoc(r))
              /\ IsStoredAudio(r, response[r].language_audio_link, SourceDoc(r))

\* two requests have both answered with their links, ten objects stored
C10_Witness ==
    \E r1, r2 \in Requests :
        /\ r1 # r2
        /\ IsSuccess(response[r1])
        /\ IsSuccess(response[r2])
        /\ Cardinality(DOMAIN s3) >= 10

====
